---- MODULE Spec2Model ----
(***************************************************************************)
(* The RSA key container and binary codec (src/rsa/private.rs, public.rs,  *)
(* private_offsets.rs, public_offsets.rs, bytes.rs) and the chunked       *)
(* block-transform loops (src/rsa/crypt.rs) of cryptohelpers.              *)
(*                                                                         *)
(* A byte is a number in 0..255.  usize is UsizeBytes bytes wide, so its   *)
(* arithmetic is taken modulo 256^UsizeBytes; the width is scaled down     *)
(* from the 8 bytes of a 64-bit target so that the sums of a header can    *)
(* reach and pass the largest usize.                                       *)
(***************************************************************************)
EXTENDS Integers, Sequences, FiniteSets, TLC

VARIABLES
    build,      \* "debug": overflow-checks on (an overflowing + panics); "release": it wraps
    endian,     \* "le" | "be": the byte order of the machine
    pc,         \* codec: "start" | "have_key" | "written" | "have_wire" | "failed"
    kind,       \* "none" | "private" | "public": the container type in use
    comps,      \* the big-integer byte strings last given to new
    key,        \* the container held (RsaPrivateKey / RsaPublicKey), or NoKey
    origin,     \* which operation returned key: "none" | "new" | "from_bytes" | "read_from_sync"
    orig,       \* the container new returned
    wire,       \* the byte input of from_bytes / the stream of read_from_sync
    wiresrc,    \* where wire comes from: "none" | "exact" | "reencoded" | "truncated" | "extended" | "hostile"
    aligned,    \* whether wire starts at an address aligned for usize
    pos,        \* bytes of wire that read_from_sync has consumed
    sink,       \* the stream write_to_sync writes to
    sink0,      \* what sink held before the last write_to_sync
    writes,     \* number of write_to_sync calls on sink
    ret,        \* the result of the last operation
    input,      \* the bytes last given to from_bytes / read_from_sync
    pubparts,   \* what key.get_public_parts() returned
    \* encrypt_sync / decrypt_sync
    cpc,        \* "idle" | "read" | "crypt" | "write" | "done"
    op,         \* "none" | "encrypt" | "decrypt"
    key_size,   \* key.size(): the block size of the key in bytes
    max_size,   \* key_size - PADDING_NEEDS: the length of read_buffer
    source,     \* the bytes the source stream delivers in all
    spos,       \* bytes of source already read
    chunk,      \* read_buffer[..read] after data.read
    block,      \* crypt_buffer[..read] after the capability call
    out,        \* the bytes written to output
    done,       \* the local done
    cret,       \* what the transform returned
    plain,      \* the plaintext given to encrypt_sync
    cipher,     \* what encrypt_sync wrote, given to decrypt_sync
    nreads,     \* non-zero reads so far
    allfull,    \* every read so far filled read_buffer or took all that remained
    lastcall,   \* length of the input of the last capability call (0: none yet)
    ncalls,     \* capability calls so far
    committed,  \* the blocks for which write_all returned Ok, in order
    fault,      \* what made the transform return an error: "none" | "key" | "nokey" | "read" | "capability" | "write"
    injected,   \* the failure came from outside: an I/O error, a key that cannot be built,
                \* a capability error that the input does not explain
    \* sign_slice / sign_sync / verify_slice / verify_sync
    spc,        \* "idle" | "sign_read" | "signed" | "verify_read" | "verified" | "failed"
                \* | "serialized" | "deserialized" | "from_slice"
    sop,        \* the operation running or last run
    skey,       \* key.size() of the signing key
    msg,        \* the data given to the signing operation
    mpos,       \* bytes of the stream already read
    hasher,     \* the state of the streaming digest inside the Signer / Verifier
    sdone,      \* the local done
    sreads,     \* non-zero reads of the running operation
    sig,        \* the Signature held
    sret,       \* what the signing operation returned
    vdata,      \* the data given to the verifying operation
    vret,       \* what the verifying operation returned
    ser,        \* the bytes given to Deserialize or to Signature::from_slice, and their form
    dret,       \* what Deserialize / from_slice returned
    dsig,       \* the Signature it returned
    \* AesKey / Password
    layout,     \* the order in which the build lays out the fields of AesKey
    apc,        \* "start" | "aes" | "bytes" | "ref" | "back" | "password" | "created" | "converted"
    akey,       \* an AesKey
    abytes,     \* akey.into_bytes()
    aref,       \* akey.as_ref()
    aback,      \* AesKey::from_bytes(abytes)
    passwd,     \* a Password
    pcreated,   \* passwd.create_aes()
    pconverted, \* AesKey::from(passwd)
    kin,        \* the slices given to AesKey::from_slice or Salt::slice
    kres,       \* what it returned
    kval        \* the AesKey or Salt it returned

codecVars == <<kind, comps, key, origin, orig, wire, wiresrc, aligned, pos, sink, sink0, writes, ret,
               input, pubparts>>
cryptVars == <<cpc, op, key_size, max_size, source, spos, chunk, block, out, done, cret,
               plain, cipher, nreads, allfull, lastcall, ncalls, committed, fault, injected>>
signVars == <<spc, sop, skey, msg, mpos, hasher, sdone, sreads, sig, sret, vdata, vret,
              ser, dret, dsig>>
keyVars == <<layout, apc, akey, abytes, aref, aback, passwd, pcreated, pconverted,
             kin, kres, kval>>
vars == <<build, endian, pc, codecVars, cryptVars, signVars, keyVars>>

(***************************************************************************)
(* Bounds of the model.                                                    *)
(***************************************************************************)
UsizeBytes == 2      \* size_of::<usize>() (8 on a 64-bit target)
MaxBody == 2         \* total bytes of the components given to new
MaxExtra == 1        \* bytes appended after an encoding
MaxHostileBody == 2  \* bytes that follow a header built by a third party
MaxWrites == 2       \* write_to_sync calls on one sink
MaxPlainChunk == 2   \* largest max_size = key_size - PADDING_NEEDS of a key
MaxPlain == 3        \* bytes of a plaintext

\* consts::RSA_PADDING_NEEDS
PADDING_NEEDS == 11
\* consts::RSA_SIG_SIZE
RSA_SIG_SIZE == 512
\* consts::AES_KEYSIZE, consts::AES_IVSIZE, consts::PASSWORD_KEYSIZE, consts::PASSWORD_SALTSIZE
AES_KEYSIZE == 16
AES_IVSIZE == 16
PASSWORD_KEYSIZE == 32
PASSWORD_SALTSIZE == 32

UsizeMod == 256 ^ UsizeBytes
UsizeMax == UsizeMod - 1
IsizeMax == (UsizeMod \div 2) - 1

\* The value that stands for "the thread panicked" where a usize is expected.
Panic == 0 - 1
\* ... and where a byte string is expected (a panic, or an Err of the capability)
NoBytes == <<Panic>>

CompBytes == {1, 255}

(***************************************************************************)
(* usize arithmetic.                                                       *)
(***************************************************************************)
Plus(a, b) ==
    IF a = Panic \/ b = Panic THEN Panic
    ELSE IF a + b <= UsizeMax THEN a + b
    ELSE IF build = "debug" THEN Panic
    ELSE (a + b) % UsizeMod

RECURSIVE SumFrom(_, _, _)
SumFrom(acc, s, i) == IF i > Len(s) THEN acc ELSE SumFrom(Plus(acc, s[i]), s, i + 1)

\* a + b + c + ... as Rust evaluates it: left to right, each + a usize addition
USum(s) == SumFrom(s[1], s, 2)

RECURSIVE MathSum(_)
MathSum(s) == IF s = <<>> THEN 0 ELSE s[1] + MathSum(Tail(s))

(***************************************************************************)
(* Offset groups.                                                          *)
(***************************************************************************)
PrivateFields == <<"n", "e", "d", "p", "q", "dmp1", "dmq1", "iqmp">>
PublicFields == <<"n", "e">>
FieldsOf(k) == IF k = "private" THEN PrivateFields ELSE PublicFields
FieldSet(k) == {FieldsOf(k)[i] : i \in 1..Len(FieldsOf(k))}

OrPanic(s) == IF \E f \in DOMAIN s : s[f] = Panic THEN Panic ELSE s

PrivateStarts(g) ==
    OrPanic([n    |-> 0,
             e    |-> g.n,
             d    |-> USum(<<g.n, g.e>>),
             p    |-> USum(<<g.n, g.e, g.d>>),
             q    |-> USum(<<g.n, g.e, g.d, g.p>>),
             dmp1 |-> USum(<<g.n, g.e, g.d, g.p, g.q>>),
             dmq1 |-> USum(<<g.n, g.e, g.d, g.p, g.q, g.dmp1>>),
             iqmp |-> USum(<<g.n, g.e, g.d, g.p, g.q, g.dmp1, g.dmq1>>)])

PrivateBodyLen(g) == USum(<<g.n, g.e, g.d, g.p, g.q, g.dmp1, g.dmq1, g.iqmp>>)

PublicStarts(g) == [n |-> 0, e |-> g.n]

PublicBodyLen(g) == USum(<<g.n, g.e>>)

starts(k, g) == IF k = "private" THEN PrivateStarts(g) ELSE PublicStarts(g)
body_len(k, g) == IF k = "private" THEN PrivateBodyLen(g) ELSE PublicBodyLen(g)

\* size_of::<PrivateOffsetGroup>() / size_of::<PublicOffsetGroup>()
OffSize(k) == Len(FieldsOf(k)) * UsizeBytes

(***************************************************************************)
(* The raw bytes of a header: each usize field in the machine's byte       *)
(* order, the fields in declaration order.                                 *)
(***************************************************************************)
UsizeToBytes(v) ==
    [i \in 1..UsizeBytes |->
        IF endian = "le" THEN (v \div (256 ^ (i - 1))) % 256
        ELSE (v \div (256 ^ (UsizeBytes - i))) % 256]

RECURSIVE BytesValue(_, _)
BytesValue(b, i) ==
    IF i > Len(b) THEN 0
    ELSE b[i] * (IF endian = "le" THEN 256 ^ (i - 1) ELSE 256 ^ (Len(b) - i))
         + BytesValue(b, i + 1)

BytesToUsize(b) == BytesValue(b, 1)

RECURSIVE Concat(_)
Concat(ss) == IF ss = <<>> THEN <<>> ELSE ss[1] \o Concat(Tail(ss))

\* bytes::refer(&offset)
refer(k, g) == Concat([i \in 1..Len(FieldsOf(k)) |-> UsizeToBytes(g[FieldsOf(k)[i]])])

\* derefer reading every field in the byte order opposite to the machine's
derefer_swapped(k, bytes) ==
    [f \in FieldSet(k) |->
        LET i == CHOOSE j \in 1..Len(FieldsOf(k)) : FieldsOf(k)[j] = f
            b == SubSeq(bytes, (i - 1) * UsizeBytes + 1, i * UsizeBytes)
        IN  BytesToUsize([j \in 1..Len(b) |-> b[Len(b) + 1 - j]])]

\* bytes::derefer(&bytes[..OFF_SIZE]) and the union read of read_from_sync
derefer(k, bytes) ==
    [f \in FieldSet(k) |->
        LET i == CHOOSE j \in 1..Len(FieldsOf(k)) : FieldsOf(k)[j] = f
        IN  BytesToUsize(SubSeq(bytes, (i - 1) * UsizeBytes + 1, i * UsizeBytes))]

(***************************************************************************)
(* Containers.                                                             *)
(***************************************************************************)
NoKey == [kind |-> "none", data |-> <<>>, offset |-> <<>>, offset_starts |-> <<>>]
NoComps == <<>>

Container(k, data, offset) ==
    [kind |-> k, data |-> data, offset |-> offset, offset_starts |-> starts(k, offset)]

\* new vectorising e before n
new_e_first(k, c) ==
    Container(k,
              Concat([i \in 1..Len(FieldsOf(k)) |->
                         c[FieldsOf(k)[IF i = 1 THEN 2 ELSE IF i = 2 THEN 1 ELSE i]]]),
              [f \in FieldSet(k) |-> Len(c[f])])

\* RsaPrivateKey::new / RsaPublicKey::new: vectorise each component in order
new(k, c) ==
    Container(k,
              Concat([i \in 1..Len(FieldsOf(k)) |-> c[FieldsOf(k)[i]]]),
              [f \in FieldSet(k) |-> Len(c[f])])

RECURSIVE StripZeros(_)
\* BigNum::from_slice(b) and then to_vec(): the number's minimal big-endian bytes
StripZeros(b) == IF b # <<>> /\ b[1] = 0 THEN StripZeros(Tail(b)) ELSE b

\* component!(self -> f)
component(ky, f) ==
    LET s == ky.offset_starts[f]
        e == Plus(s, ky.offset[f])
    IN  IF e = Panic \/ s > e \/ e > Len(ky.data) THEN NoBytes
        ELSE SubSeq(ky.data, s + 1, e)

\* RsaPrivateKey::get_public_parts: RsaPublicKey::new(self.num_n(), self.num_e()),
\* NoKey when an accessor panics
get_public_parts(ky) ==
    IF component(ky, "n") = NoBytes \/ component(ky, "e") = NoBytes THEN NoKey
    ELSE new("public", [n |-> StripZeros(component(ky, "n")), e |-> StripZeros(component(ky, "e"))])

(***************************************************************************)
(* Results.                                                                *)
(***************************************************************************)
Res(o, tag, expected, got, val) ==
    [op |-> o, tag |-> tag, expected |-> expected, got |-> got, val |-> val]
NoRet == Res("none", "none", 0, 0, 0)

\* the error values of the collaborators: std::io::Error, openssl's ErrorStack
IoError == "io::Error"
ErrorStack == "ErrorStack"
NoError == "None"

\* impl std::error::Error for rsa::Error: source().  An Error::IO and an
\* Error::OpenSSLInternal hold the error they were made from (in val)
Error_source(r) == IF r.tag \in {"ErrIO", "ErrOpenSSLInternal"} THEN r.val ELSE NoError

\* write_to_sync leaving out the header
write_to_sync_bytes_body(ky) == ky.data

\* what write_to_sync writes, and what it returns
write_to_sync_bytes(ky) == refer(ky.kind, ky.offset) \o ky.data
write_to_sync_ret(ky) == OffSize(ky.kind) + Len(ky.data)

\* from_bytes: <<result, container>>.  bytes::derefer turns a byte pointer
\* into a reference to the header; when the input is not aligned for usize
\* that is undefined behaviour: the read gives the bytes, or it stops the
\* program (faulted: the alignment check of a debug build, a trap)
from_bytes(k, bytes, faulted) ==
    IF Len(bytes) < OffSize(k)
    THEN <<Res("from_bytes", "ErrLength", OffSize(k), Len(bytes), 0), NoKey>>
    ELSE IF faulted
    THEN <<Res("from_bytes", "Fault", 0, 0, 0), NoKey>>
    ELSE LET offset == derefer(k, SubSeq(bytes, 1, OffSize(k)))
             rest   == SubSeq(bytes, OffSize(k) + 1, Len(bytes))
             sz     == body_len(k, offset)
         IN  IF sz = Panic
             THEN <<Res("from_bytes", "Panic", 0, 0, 0), NoKey>>
             ELSE IF Len(rest) < sz
             THEN <<Res("from_bytes", "ErrLength", sz, Len(rest), 0), NoKey>>
             ELSE <<Res("from_bytes", "Ok", 0, 0, 0), Container(k, rest, offset)>>

\* read_from_sync reading the body to the end of the stream
read_from_sync_to_end(k, stream) ==
    IF Len(stream) < OffSize(k)
    THEN <<Res("read_from_sync", "UnexpectedEof", 0, 0, 0), NoKey, Len(stream)>>
    ELSE LET offset == derefer(k, SubSeq(stream, 1, OffSize(k)))
             sz     == body_len(k, offset)
         IN  IF sz = Panic \/ sz > IsizeMax
             THEN <<Res("read_from_sync", "Panic", 0, 0, 0), NoKey, OffSize(k)>>
             ELSE IF Len(stream) - OffSize(k) < sz
             THEN <<Res("read_from_sync", "UnexpectedEof", 0, 0, 0), NoKey, Len(stream)>>
             ELSE <<Res("read_from_sync", "Ok", 0, 0, 0),
                    Container(k, SubSeq(stream, OffSize(k) + 1, Len(stream)), offset),
                    Len(stream)>>

\* read_from_sync: <<result, container, bytes consumed>>
read_from_sync(k, stream) ==
    IF Len(stream) < OffSize(k)
    THEN <<Res("read_from_sync", "UnexpectedEof", 0, 0, 0), NoKey, Len(stream)>>
    ELSE LET offset == derefer(k, SubSeq(stream, 1, OffSize(k)))
             sz     == body_len(k, offset)
             avail  == Len(stream) - OffSize(k)
         IN  IF sz = Panic \/ sz > IsizeMax
             THEN <<Res("read_from_sync", "Panic", 0, 0, 0), NoKey, OffSize(k)>>
             ELSE IF avail < sz
             THEN <<Res("read_from_sync", "UnexpectedEof", 0, 0, 0), NoKey, Len(stream)>>
             ELSE <<Res("read_from_sync", "Ok", 0, 0, 0),
                    Container(k, SubSeq(stream, OffSize(k) + 1, OffSize(k) + sz), offset),
                    OffSize(k) + sz>>

(***************************************************************************)
(* Inputs.                                                                 *)
(***************************************************************************)
Kinds == {"private", "public"}

RECURSIVE Compositions(_, _)
\* the sequences of k naturals that sum to total
Compositions(k, total) ==
    IF k = 0 THEN (IF total = 0 THEN {<<>>} ELSE {})
    ELSE UNION {{<<a>> \o r : r \in Compositions(k - 1, total - a)} : a \in 0..total}

\* BigNumRef::to_vec gives the minimal big-endian bytes: no leading zero byte
IsBigNumBytes(b) == b = <<>> \/ b[1] # 0

Slices(k, data, lens) ==
    [f \in FieldSet(k) |->
        LET i == CHOOSE j \in 1..Len(FieldsOf(k)) : FieldsOf(k)[j] = f
            s == MathSum(SubSeq(lens, 1, i - 1))
        IN  SubSeq(data, s + 1, s + lens[i])]

ComponentSets(k) ==
    {c \in UNION {{Slices(k, d, l) : d \in [1..t -> CompBytes],
                                      l \in Compositions(Len(FieldsOf(k)), t)}
                  : t \in 0..MaxBody}
        : \A f \in FieldSet(k) : IsBigNumBytes(c[f])}

HostileLens == (0..2) \cup {UsizeMax, IsizeMax + 1}

\* headers with n and one more field set
HostileGroups(k) ==
    {[f \in FieldSet(k) |-> IF f = "n" THEN x ELSE IF f = b THEN y ELSE 0]
        : b \in FieldSet(k) \ {"n"}, x \in HostileLens, y \in HostileLens}

Fill(len, byte) == [i \in 1..len |-> byte]
Extra(len) == Fill(len, 170)

\* the same with a zero byte first
ZeroLed(len) == [i \in 1..len |-> IF i = 1 THEN 0 ELSE 170]

\* the bodies of len bytes that follow a header built by a third party
HostileBodies(len) == {Extra(len), ZeroLed(len)}

\* the lengths an encoding of len bytes is cut to: nothing, a header one byte
\* short, the header alone, a body one byte short
TruncatedLens(k, len) == {l \in {0, OffSize(k) - 1, OffSize(k), len - 1} : l < len}

\* only bytes::derefer, which RsaPrivateKey::from_bytes uses, needs alignment
Alignments(k) == IF k = "private" THEN BOOLEAN ELSE {TRUE}

(***************************************************************************)
(* Codec operations.                                                       *)
(***************************************************************************)
CodecInit ==
    /\ pc = "start"
    /\ kind = "none"
    /\ comps = NoComps
    /\ key = NoKey
    /\ origin = "none"
    /\ orig = NoKey
    /\ wire = <<>>
    /\ wiresrc = "none"
    /\ aligned = TRUE
    /\ pos = 0
    /\ sink = <<>>
    /\ sink0 = sink
    /\ writes = 0
    /\ ret = NoRet
    /\ input = <<>>
    /\ pubparts = NoKey

CryptInit ==
    /\ cpc = "idle"
    /\ op = "none"
    /\ key_size = 0
    /\ max_size = 0
    /\ source = <<>>
    /\ spos = 0
    /\ chunk = <<>>
    /\ block = <<>>
    /\ out = <<>>
    /\ done = 0
    /\ cret = NoRet
    /\ plain = <<>>
    /\ cipher = <<>>
    /\ nreads = 0
    /\ allfull = TRUE
    /\ lastcall = 0
    /\ ncalls = 0
    /\ committed = <<>>
    /\ fault = "none"
    /\ injected = FALSE

SignInit ==
    /\ spc = "idle"
    /\ sop = "none"
    /\ skey = 0
    /\ msg = <<>>
    /\ mpos = 0
    /\ hasher = 0
    /\ sdone = 0
    /\ sreads = 0
    /\ sig = <<>>
    /\ sret = NoRet
    /\ vdata = <<>>
    /\ vret = NoRet
    /\ ser = [form |-> "none", items |-> <<>>]
    /\ dret = NoRet
    /\ dsig = <<>>

KeysInit ==
    /\ apc = "start"
    /\ akey = <<>>
    /\ abytes = <<>>
    /\ aref = <<>>
    /\ aback = <<>>
    /\ passwd = <<>>
    /\ pcreated = <<>>
    /\ pconverted = <<>>
    /\ kin = <<>>
    /\ kres = NoRet
    /\ kval = <<>>

Init ==
    /\ build \in {"debug", "release"}
    /\ endian \in {"le", "be"}
    /\ layout = "key_iv"
    /\ CodecInit
    /\ CryptInit
    /\ SignInit
    /\ KeysInit

\* RsaPrivateKey::new(n, e, d, p, q, dmp1, dmq1, iqmp) / RsaPublicKey::new(n, e)
New ==
    /\ pc = "start"
    /\ \E k \in Kinds : \E c \in ComponentSets(k) :
        /\ kind' = k
        /\ comps' = c
        /\ key' = new(k, c)
        /\ orig' = new(k, c)
    /\ origin' = "new"
    /\ pc' = "have_key"
    /\ ret' = Res("new", "Ok", 0, 0, 0)
    /\ UNCHANGED <<build, endian, wire, wiresrc, aligned, pos, sink, sink0, writes, input, pubparts, cryptVars, signVars, keyVars>>

\* key.to_bytes(): write_to_sync into a new Vec
ToBytes ==
    /\ pc = "have_key"
    /\ wire' = write_to_sync_bytes(key)
    /\ wiresrc' = IF origin = "new" THEN "exact" ELSE "reencoded"
    /\ aligned' = TRUE
    /\ pos' = 0
    /\ pc' = "have_wire"
    /\ ret' = Res("to_bytes", "Ok", 0, 0, Len(write_to_sync_bytes(key)))
    /\ UNCHANGED <<build, endian, kind, comps, key, origin, orig, sink, sink0, writes, input, pubparts, cryptVars, signVars, keyVars>>

\* key.write_to_sync(&mut sink)
WriteToSync ==
    /\ pc \in {"have_key", "written"}
    /\ writes < MaxWrites
    /\ pc' = "written"
    /\ sink0' = sink
    /\ sink' = sink \o write_to_sync_bytes(key)
    /\ writes' = writes + 1
    /\ ret' = Res("write_to_sync", "Ok", 0, 0, write_to_sync_ret(key))
    /\ UNCHANGED <<build, endian, kind, comps, key, origin, orig, wire, wiresrc, aligned, pos, input, pubparts, cryptVars, signVars, keyVars>>

\* the encoding reaches the reader cut short
Truncate ==
    /\ pc = "have_wire"
    /\ wiresrc = "exact"
    /\ \E len \in TruncatedLens(kind, Len(wire)) : wire' = SubSeq(wire, 1, len)
    /\ wiresrc' = "truncated"
    /\ aligned' \in Alignments(kind)
    /\ UNCHANGED <<build, endian, pc, kind, comps, key, origin, orig, pos, sink, sink0, writes, ret, input, pubparts, cryptVars, signVars, keyVars>>

\* the encoding reaches the reader with bytes after it
Extend ==
    /\ pc = "have_wire"
    /\ wiresrc = "exact"
    /\ \E len \in 1..MaxExtra : wire' = wire \o Extra(len)
    /\ wiresrc' = "extended"
    /\ aligned' \in Alignments(kind)
    /\ UNCHANGED <<build, endian, pc, kind, comps, key, origin, orig, pos, sink, sink0, writes, ret, input, pubparts, cryptVars, signVars, keyVars>>

\* a byte input whose header a third party chose
Receive ==
    /\ pc = "start"
    /\ \E k \in Kinds : \E g \in HostileGroups(k) : \E len \in 0..MaxHostileBody :
        /\ kind' = k
        /\ \E body \in HostileBodies(len) : wire' = refer(k, g) \o body
        /\ aligned' \in Alignments(k)
    /\ wiresrc' = "hostile"
    /\ pc' = "have_wire"
    /\ UNCHANGED <<build, endian, comps, key, origin, orig, pos, sink, sink0, writes, ret, input, pubparts, cryptVars, signVars, keyVars>>

\* RsaPrivateKey::from_bytes(wire) / RsaPublicKey::from_bytes(wire)
FromBytes ==
    /\ pc = "have_wire"
    /\ wiresrc # "reencoded"
    /\ \E faulted \in {FALSE, kind = "private" /\ ~aligned} :
        LET r == from_bytes(kind, wire, faulted)
        IN  /\ ret' = r[1]
            /\ key' = r[2]
            /\ origin' = IF r[1].tag = "Ok" THEN "from_bytes" ELSE "none"
            /\ pc' = IF r[1].tag = "Ok" THEN "have_key" ELSE "failed"
    /\ pos' = 0
    /\ input' = wire
    /\ UNCHANGED <<build, endian, kind, comps, orig, wire, wiresrc, aligned, sink, sink0, writes, pubparts, cryptVars, signVars, keyVars>>

\* read_from_sync(&mut wire)
ReadFromSync ==
    /\ pc = "have_wire"
    /\ wiresrc # "reencoded"
    /\ LET r == read_from_sync(kind, wire)
       IN  /\ ret' = r[1]
           /\ key' = r[2]
           /\ pos' = r[3]
           /\ origin' = IF r[1].tag = "Ok" THEN "read_from_sync" ELSE "none"
           /\ pc' = IF r[1].tag = "Ok" THEN "have_key" ELSE "failed"
    /\ input' = wire
    /\ UNCHANGED <<build, endian, kind, comps, orig, wire, wiresrc, aligned, sink, sink0, writes, pubparts, cryptVars, signVars, keyVars>>

\* key.get_public_parts()
GetPublicParts ==
    /\ pc = "have_key"
    /\ kind = "private"
    /\ pubparts' = get_public_parts(key)
    /\ ret' = Res("get_public_parts", IF get_public_parts(key) = NoKey THEN "Panic" ELSE "Ok", 0, 0, 0)
    /\ pc' = "parts"
    /\ UNCHANGED <<build, endian, kind, comps, key, origin, orig, wire, wiresrc, aligned, pos, sink,
                   sink0, writes, input, cryptVars, signVars, keyVars>>

(***************************************************************************)
(* The block capability (openssl's Rsa::public_encrypt and                 *)
(* Rsa::private_decrypt with PKCS#1 v1.5 padding).  The modular            *)
(* exponentiation is outside the repository; it is modelled as a bijection *)
(* on strings of key_size bytes, here the complement of every byte.        *)
(***************************************************************************)
RsaPermute(em) == [i \in 1..Len(em) |-> 255 - em[i]]
RsaInvert(c) == [i \in 1..Len(c) |-> 255 - c[i]]

\* the padding bytes are random and non-zero
PadBytes == {1, 255}

\* EM = 00 02 PS 00 M with at least 8 bytes of PS
Pkcs1Pad(m, ks, pad) == <<0, 2>> \o Fill(ks - 3 - Len(m), pad) \o <<0>> \o m

\* the index of the 00 that ends PS, or 0
Separator(em) ==
    IF \E i \in 3..Len(em) : em[i] = 0
    THEN CHOOSE i \in 3..Len(em) : em[i] = 0 /\ \A j \in 3..(i - 1) : em[j] # 0
    ELSE 0

\* key.public_encrypt(from, to, PADDING): the block, or NoBytes for Err
public_encrypt(from, ks, pad) ==
    IF Len(from) + PADDING_NEEDS > ks THEN NoBytes
    ELSE RsaPermute(Pkcs1Pad(from, ks, pad))

\* key.private_decrypt(from, to, PADDING): the plaintext, or NoBytes for Err.
\* An input shorter than the block is read as the same big-endian number.
private_decrypt(from, ks) ==
    IF Len(from) > ks THEN NoBytes
    ELSE LET em == RsaInvert(Fill(ks - Len(from), 0) \o from)
             z  == Separator(em)
         IN  IF ks >= PADDING_NEEDS /\ em[1] = 0 /\ em[2] = 2 /\ z >= PADDING_NEEDS
             THEN SubSeq(em, z + 1, Len(em))
             ELSE NoBytes

\* key_size - PADDING_NEEDS
Minus(a, b) ==
    IF a >= b THEN a - b
    ELSE IF build = "debug" THEN Panic
    ELSE (a - b) % UsizeMod

Min(a, b) == IF a <= b THEN a ELSE b

\* bytes::copy_slice(dst, src): <<dst afterwards, bytes copied>>; &dst[0] and
\* &src[0] panic on an empty slice
copy_slice(dst, src) ==
    IF Len(dst) = 0 \/ Len(src) = 0 THEN <<NoBytes, Panic>>
    ELSE LET sz == Min(Len(dst), Len(src))
         IN  <<[i \in 1..Len(dst) |-> IF i <= sz THEN src[i] ELSE dst[i]], sz>>

KeySizes == (PADDING_NEEDS - 1)..(PADDING_NEEDS + MaxPlainChunk)
PlainBytes == {7, 9}
Plaintexts == UNION {[1..len -> PlainBytes] : len \in 0..MaxPlain}

(***************************************************************************)
(* encrypt_sync and decrypt_sync, one action per step of the loop.  The    *)
(* two functions have the same text but for the key, the capability and    *)
(* the error; op says which one runs.                                      *)
(***************************************************************************)
\* what key.get_rsa_pub() / key.get_rsa_priv() gives: the key, an error of
\* the capability, or Ok(None)
KeyResults == {"ok", "err", "nokey"}

\* the closure of map_err passing the capability's error on
map_err_key_internal(o) == Res(o, "ErrOpenSSLInternal", 0, 0, ErrorStack)

\* .map_err(|_| Error::Key)?.ok_or(Error::Key)? on the key
map_err_key(o) == Res(o, "ErrKey", 0, 0, 0)

\* the function's first four statements: the key, key_size, max_size, the buffers
Begin(o, ks, src, keyres) ==
    /\ op' = o
    /\ key_size' = ks
    /\ source' = src
    /\ spos' = 0
    /\ chunk' = <<>>
    /\ block' = <<>>
    /\ out' = <<>>
    /\ done' = 0
    /\ nreads' = 0
    /\ allfull' = TRUE
    /\ lastcall' = 0
    /\ ncalls' = 0
    /\ committed' = <<>>
    /\ IF keyres # "ok"
       THEN /\ cret' = map_err_key(o)
            /\ fault' = IF keyres = "err" THEN "key" ELSE "nokey"
            /\ injected' = TRUE
            /\ max_size' = 0
            /\ cpc' = "done"
       ELSE LET m == Minus(ks, PADDING_NEEDS)
            IN  /\ fault' = "none"
                /\ injected' = FALSE
                /\ IF m = Panic \/ m > IsizeMax
                   THEN /\ cret' = Res(o, "Panic", 0, 0, 0)
                        /\ max_size' = 0
                        /\ cpc' = "done"
                   ELSE /\ cret' = NoRet
                        /\ max_size' = m
                        /\ cpc' = "read"

\* encrypt_sync(&mut source, key, &mut out)
EncryptStart ==
    /\ cpc = "idle"
    /\ \E ks \in KeySizes : \E p \in Plaintexts : \E keyres \in KeyResults :
        /\ Begin("encrypt", ks, p, keyres)
        /\ plain' = p
    /\ UNCHANGED <<build, endian, pc, codecVars, signVars, keyVars, cipher>>

\* decrypt_sync(&mut source, key, &mut out) over what encrypt_sync wrote
DecryptStart ==
    /\ cpc = "done"
    /\ op = "encrypt"
    /\ cret.tag = "Ok"
    /\ \E keyres \in KeyResults : Begin("decrypt", key_size, out, keyres)
    /\ cipher' = out
    /\ UNCHANGED <<build, endian, pc, codecVars, signVars, keyVars, plain>>

\* From<io::Error> losing the error
from_io_error_unknown(o, e) == Res(o, "ErrUnknown", 0, 0, 0)

\* impl From<io::Error> for Error, applied by ? to the Err of a read or a write
from_io_error(o, e) == Res(o, "ErrIO", 0, 0, e)

\* the closure of map_err giving Error::Encrypt in both functions
map_err_encrypt(o) == Res(o, "ErrEncrypt", 0, 0, 0)

\* .map_err(|_| Error::Encrypt) in encrypt_sync, .map_err(|_| Error::Decrypt) in decrypt_sync
map_err(o) == Res(o, IF o \in {"encrypt", "encrypt_slice"} THEN "ErrEncrypt" ELSE "ErrDecrypt", 0, 0, 0)

\* the loop condition with a wrong test: only a read that fills the buffer goes on
LoopContinues_full_only(n) == n # 0 /\ n >= max_size

\* read != 0
LoopContinues(n) == n # 0

\* done += read, counting the block size instead
AddRead_block(d, n) == Plus(d, key_size)

\* done += read
AddRead(d, n) == Plus(d, n)

\* read = data.read(&mut read_buffer[..])?; read != 0
ReadStep ==
    /\ cpc = "read"
    /\ LET remaining == Len(source) - spos
           most == Min(max_size, remaining)
       IN  \/ \E n \in (IF most = 0 THEN {0} ELSE 1..most) :
                IF ~LoopContinues(n)
                THEN /\ cret' = Res(op, "Ok", 0, 0, done)
                     /\ cpc' = "done"
                     /\ spos' = spos + n
                     /\ UNCHANGED <<chunk, nreads, allfull, fault, injected>>
                ELSE /\ chunk' = SubSeq(source, spos + 1, spos + n)
                     /\ spos' = spos + n
                     /\ nreads' = nreads + 1
                     /\ allfull' = (allfull /\ n = most)
                     /\ cpc' = "crypt"
                     /\ UNCHANGED <<cret, fault, injected>>
           \* the read returns Err(e): ? returns Error::IO(e)
           \/ /\ cret' = from_io_error(op, IoError)
              /\ cpc' = "done"
              /\ fault' = "read"
              /\ injected' = TRUE
              /\ UNCHANGED <<chunk, spos, nreads, allfull>>
    /\ UNCHANGED <<build, endian, pc, codecVars, signVars, keyVars, op, key_size, max_size, source, block, out,
                   done, plain, cipher, lastcall, ncalls, committed>>

\* done += read; read = key.public_encrypt / private_decrypt(&read_buffer[..read], ..)
CryptStep ==
    /\ cpc = "crypt"
    /\ lastcall' = Len(chunk)
    /\ ncalls' = ncalls + 1
    /\ done' = AddRead(done, Len(chunk))
    /\ \E pad \in PadBytes : \E capfail \in BOOLEAN :
        LET r == IF capfail THEN NoBytes
                 ELSE IF op = "encrypt" THEN public_encrypt(chunk, key_size, pad)
                 ELSE private_decrypt(chunk, key_size)
        IN  IF AddRead(done, Len(chunk)) = Panic
            THEN /\ cret' = Res(op, "Panic", 0, 0, 0)
                 /\ cpc' = "done"
                 /\ UNCHANGED <<block, fault, injected>>
            ELSE IF r = NoBytes
            THEN /\ cret' = map_err(op)
                 /\ cpc' = "done"
                 /\ fault' = "capability"
                 /\ injected' = capfail
                 /\ UNCHANGED block
            ELSE /\ block' = r
                 /\ cpc' = "write"
                 /\ UNCHANGED <<cret, fault, injected>>
    /\ UNCHANGED <<build, endian, pc, codecVars, signVars, keyVars, op, key_size, max_size, source, spos, chunk,
                   out, plain, cipher, nreads, allfull, committed>>

\* how many bytes of a block of len bytes write_all has passed to the sink
\* when it returns: all of them (Ok), or fewer (the error of a later write)
WrittenBefore(len) == {w \in {0, 1, len} : w <= len}

\* a sink that puts what it is given before what it holds
sink_write_front(o, bytes) == bytes \o o

\* Write::write on the sink: the bytes follow what was written before
sink_write(o, bytes) == o \o bytes

\* the write putting the block at the start of the output instead of its end
WriteStep_overwrite ==
    /\ cpc = "write"
    /\ out' = block
    /\ committed' = block
    /\ cpc' = "read"
    /\ UNCHANGED <<build, endian, pc, codecVars, signVars, keyVars, op, key_size, max_size, source, spos, chunk,
                   block, done, cret, plain, cipher, nreads, allfull, lastcall, ncalls,
                   fault, injected>>

\* output.write_all(&crypt_buffer[..read])?
WriteStep ==
    /\ cpc = "write"
    /\ \E w \in WrittenBefore(Len(block)) :
        /\ out' = sink_write(out, SubSeq(block, 1, w))
        /\ IF w = Len(block)
           THEN /\ committed' = committed \o block
                /\ cpc' = "read"
                /\ UNCHANGED <<cret, fault, injected>>
           ELSE /\ cret' = from_io_error(op, IoError)
                /\ cpc' = "done"
                /\ fault' = "write"
                /\ injected' = TRUE
                /\ UNCHANGED committed
    /\ UNCHANGED <<build, endian, pc, codecVars, signVars, keyVars, op, key_size, max_size, source, spos, chunk,
                   block, done, plain, cipher, nreads, allfull, lastcall, ncalls>>

(***************************************************************************)
(* encrypt_slice_sync and decrypt_slice_sync: one capability call over the *)
(* whole slice and one write_all, no loop.                                 *)
(***************************************************************************)
\* the body of both functions; r is what the capability gives for data
SliceCall(o, ks, data, keyres, r) ==
    /\ op' = o
    /\ key_size' = ks
    /\ max_size' = 0
    /\ source' = data
    /\ spos' = 0
    /\ chunk' = <<>>
    /\ done' = 0
    /\ nreads' = 0
    /\ allfull' = TRUE
    /\ committed' = <<>>
    /\ cpc' = "done"
    /\ IF keyres # "ok"
       THEN /\ cret' = map_err_key(o)
            /\ fault' = IF keyres = "err" THEN "key" ELSE "nokey"
            /\ injected' = TRUE
            /\ lastcall' = 0
            /\ ncalls' = 0
            /\ block' = <<>>
            /\ out' = <<>>
       ELSE /\ lastcall' = Len(data)
            /\ ncalls' = 1
            /\ IF r = NoBytes
               THEN /\ cret' = map_err(o)
                    /\ fault' = "capability"
                    /\ injected' = FALSE
                    /\ block' = <<>>
                    /\ out' = <<>>
               ELSE /\ block' = r
                    /\ \E w \in WrittenBefore(Len(r)) :
                        /\ out' = sink_write(<<>>, SubSeq(r, 1, w))
                        /\ IF w = Len(r)
                           THEN /\ cret' = Res(o, "Ok", 0, 0, Len(r))
                                /\ fault' = "none"
                                /\ injected' = FALSE
                           ELSE /\ cret' = from_io_error(o, IoError)
                                /\ fault' = "write"
                                /\ injected' = TRUE

\* encrypt_slice_sync(data, key, &mut out)
EncryptSlice ==
    /\ cpc = "idle"
    /\ \E ks \in KeySizes : \E p \in Plaintexts : \E keyres \in KeyResults : \E pad \in PadBytes :
        /\ SliceCall("encrypt_slice", ks, p, keyres, public_encrypt(p, ks, pad))
        /\ plain' = p
    /\ UNCHANGED <<build, endian, pc, codecVars, signVars, keyVars, cipher>>

\* decrypt_slice_sync(data, key, &mut out) over what encrypt_slice_sync wrote
DecryptSlice ==
    /\ cpc = "done"
    /\ op = "encrypt_slice"
    /\ cret.tag = "Ok"
    /\ \E keyres \in KeyResults :
        SliceCall("decrypt_slice", key_size, out, keyres, private_decrypt(out, key_size))
    /\ cipher' = out
    /\ UNCHANGED <<build, endian, pc, codecVars, signVars, keyVars, plain>>

(***************************************************************************)
(* Signing (src/rsa/sign.rs).  openssl's Signer and Verifier are outside   *)
(* the repository: a streaming SHA-256 context and the RSA PKCS#1 v1.5     *)
(* signature of its digest.  The digest is modelled as a fold over the     *)
(* bytes fed so far (a change of one byte changes it), the signature as    *)
(* the private permutation of 00 01 FF..FF 00 digest, one key block long.  *)
(***************************************************************************)
HashInit == 0

RECURSIVE HashFold(_, _, _)
HashFold(h, bytes, i) ==
    IF i > Len(bytes) THEN h ELSE HashFold((h * 31 + bytes[i] + 1) % 251, bytes, i + 1)

\* update starting the digest again with every call
digest_update_fresh(h, bytes) == HashFold(HashInit, bytes, 1)

\* signer.update(bytes) / veri.update(bytes)
digest_update(h, bytes) == HashFold(h, bytes, 1)

\* EM = 00 01 FF..FF 00 T
Pkcs1SigPad(h, ks) == <<0, 1>> \o Fill(ks - 4, 255) \o <<0, h>>

\* signer.sign(&mut output[..]): <<Ok(len) or Err, output afterwards>> for an
\* output of RSA_SIG_SIZE zero bytes; a buffer shorter than the key block is
\* an error of the capability
Signer_sign(h, ks) ==
    IF ks > RSA_SIG_SIZE THEN <<Panic, Fill(RSA_SIG_SIZE, 0)>>
    ELSE <<ks, RsaInvert(Pkcs1SigPad(h, ks)) \o Fill(RSA_SIG_SIZE - ks, 0)>>

\* veri.verify(&self.0[..]): a signature that is not one key block long or
\* does not open to the digest is Ok(false)
Verifier_verify(h, sg, ks) == Len(sg) = ks /\ RsaPermute(sg) = Pkcs1SigPad(h, ks)

\* let mut output = [0u8; SIZE]; assert_eq!(signer.sign(&mut output[..])?, SIZE); Ok(Signature(output))
sign_finish(o, h, ks, count) ==
    LET r == Signer_sign(h, ks)
    IN  IF r[1] = Panic THEN <<Res(o, "ErrOpenSSLInternal", 0, 0, ErrorStack), <<>>>>
        ELSE IF r[1] # RSA_SIG_SIZE THEN <<Res(o, "Panic", 0, 0, 0), <<>>>>
        ELSE <<Res(o, "Ok", 0, 0, count), r[2]>>

\* what key.get_pkey_priv() / key.get_pkey_pub() gives
PKeyResults == {"ok", "err"}

\* sign_slice(data, key): <<result, Signature>>
sign_slice(data, ks, keyres) ==
    IF keyres # "ok" THEN <<Res("sign_slice", "ErrKey", 0, 0, 0), <<>>>>
    ELSE sign_finish("sign_slice", digest_update(HashInit, data), ks, 0)

\* signature.verify_slice(slice, key)
verify_slice(sg, data, ks, keyres) ==
    IF keyres # "ok" THEN Res("verify_slice", "ErrKey", 0, 0, 0)
    ELSE Res("verify_slice", "Ok", 0, 0, Verifier_verify(digest_update(HashInit, data), sg, ks))

\* keys of 2048, 4096 and 8192 bits
SignKeySizes == {RSA_SIG_SIZE \div 2, RSA_SIG_SIZE, 2 * RSA_SIG_SIZE}

\* data with one byte changed
Tampered(data) == {[data EXCEPT ![i] = x] : i \in 1..Len(data), x \in {8, 255}}

SignSlice ==
    /\ spc = "idle"
    /\ \E ks \in SignKeySizes : \E m \in Plaintexts : \E keyres \in PKeyResults :
        LET r == sign_slice(m, ks, keyres)
        IN  /\ skey' = ks
            /\ msg' = m
            /\ sret' = r[1]
            /\ sig' = r[2]
            /\ spc' = IF r[1].tag = "Ok" THEN "signed" ELSE "failed"
    /\ sop' = "sign_slice"
    /\ UNCHANGED <<build, endian, pc, codecVars, cryptVars, keyVars, mpos, hasher, sdone, sreads,
                   vdata, vret, ser, dret, dsig>>

\* sign_sync(&mut data, key) up to the loop
SignSyncStart ==
    /\ spc = "idle"
    /\ \E ks \in SignKeySizes : \E m \in Plaintexts : \E keyres \in PKeyResults :
        /\ skey' = ks
        /\ msg' = m
        /\ IF keyres # "ok"
           THEN sret' = Res("sign_sync", "ErrKey", 0, 0, 0) /\ spc' = "failed"
           ELSE sret' = NoRet /\ spc' = "sign_read"
    /\ sop' = "sign_sync"
    /\ mpos' = 0
    /\ hasher' = HashInit
    /\ sdone' = 0
    /\ sreads' = 0
    /\ UNCHANGED <<build, endian, pc, codecVars, cryptVars, keyVars, sig, vdata, vret, ser, dret, dsig>>

\* verify_slice(data, key) with the signature held
VerifySlice ==
    /\ spc = "signed"
    /\ \E d \in {msg} \cup Tampered(msg) : \E keyres \in PKeyResults :
        /\ vdata' = d
        /\ vret' = verify_slice(sig, d, skey, keyres)
    /\ sop' = "verify_slice"
    /\ spc' = "verified"
    /\ UNCHANGED <<build, endian, pc, codecVars, cryptVars, keyVars, skey, msg, mpos, hasher,
                   sdone, sreads, sig, sret, ser, dret, dsig>>

\* verify_sync(&mut from, key) up to the loop
VerifySyncStart ==
    /\ spc = "signed"
    /\ \E d \in {msg} \cup Tampered(msg) : \E keyres \in PKeyResults :
        /\ vdata' = d
        /\ IF keyres # "ok"
           THEN vret' = Res("verify_sync", "ErrKey", 0, 0, 0) /\ spc' = "verified"
           ELSE vret' = NoRet /\ spc' = "verify_read"
    /\ sop' = "verify_sync"
    /\ mpos' = 0
    /\ hasher' = HashInit
    /\ sdone' = 0
    /\ sreads' = 0
    /\ UNCHANGED <<build, endian, pc, codecVars, cryptVars, keyVars, skey, msg, sig, sret, ser, dret, dsig>>

\* while {read = data.read(&mut buffer[..])?; read != 0} { update(&buffer[..read])?; done += read; }
\* and, after a read of zero bytes, the rest of the function
StreamRead ==
    /\ spc \in {"sign_read", "verify_read"}
    /\ LET data == IF spc = "sign_read" THEN msg ELSE vdata
           remaining == Len(data) - mpos
       IN  \/ \E n \in (IF remaining = 0 THEN {0} ELSE 1..remaining) :
                IF n # 0
                THEN /\ hasher' = digest_update(hasher, SubSeq(data, mpos + 1, mpos + n))
                     /\ sdone' = Plus(sdone, n)
                     /\ mpos' = mpos + n
                     /\ sreads' = sreads + 1
                     /\ UNCHANGED <<spc, sig, sret, vret>>
                ELSE IF spc = "sign_read"
                THEN LET r == sign_finish("sign_sync", hasher, skey, sdone)
                     IN  /\ sret' = r[1]
                         /\ sig' = r[2]
                         /\ spc' = IF r[1].tag = "Ok" THEN "signed" ELSE "failed"
                         /\ UNCHANGED <<hasher, sdone, mpos, sreads, vret>>
                ELSE /\ vret' = Res("verify_sync", "Ok", 0, 0,
                                    <<Verifier_verify(hasher, sig, skey), sdone>>)
                     /\ spc' = "verified"
                     /\ UNCHANGED <<hasher, sdone, mpos, sreads, sig, sret>>
           \* the read returns Err(e)
           \/ /\ IF spc = "sign_read"
                 THEN /\ sret' = from_io_error("sign_sync", IoError)
                      /\ spc' = "failed"
                      /\ UNCHANGED vret
                 ELSE /\ vret' = from_io_error("verify_sync", IoError)
                      /\ spc' = "verified"
                      /\ UNCHANGED sret
              /\ UNCHANGED <<hasher, sdone, mpos, sreads, sig>>
    /\ UNCHANGED <<build, endian, pc, codecVars, cryptVars, keyVars, sop, skey, msg, vdata,
                   ser, dret, dsig>>

(***************************************************************************)
(* Signature: the serde implementation and from_slice.  The wire format    *)
(* belongs to the serializer in use: it hands the visitor either a byte    *)
(* string (visit_bytes) or a sequence of bytes (visit_seq).                *)
(***************************************************************************)
\* impl Default for Signature
Signature_default == Fill(RSA_SIG_SIZE, 0)

\* impl Serialize: serializer.serialize_bytes(&self.0[..]), in the form the
\* format gives to a byte string
Signature_serialize(s, fmt) == [form |-> fmt, items |-> SubSeq(s, 1, RSA_SIG_SIZE)]

\* SignatureVisitor::visit_bytes: <<result, Signature>>
visit_bytes(v) ==
    IF Len(v) = RSA_SIG_SIZE
    THEN <<Res("visit_bytes", "Ok", 0, 0, 0), [i \in 1..RSA_SIG_SIZE |-> v[i]]>>
    ELSE <<Res("visit_bytes", "ErrCustom", RSA_SIG_SIZE, Len(v), 0), <<>>>>

\* SignatureVisitor::visit_seq: bytes[i] = byte for each element, Ok as soon
\* as i == SIZE, Err when the sequence ends before
visit_seq(v) ==
    IF Len(v) >= RSA_SIG_SIZE
    THEN <<Res("visit_seq", "Ok", 0, 0, 0), [i \in 1..RSA_SIG_SIZE |-> v[i]]>>
    ELSE <<Res("visit_seq", "ErrCustom", RSA_SIG_SIZE, Len(v), 0), <<>>>>

\* impl Deserialize: deserializer.deserialize_bytes(SignatureVisitor)
Signature_deserialize(in) ==
    IF in.form = "bytes" THEN visit_bytes(in.items) ELSE visit_seq(in.items)

\* from_slice filling what is missing with zeros
Signature_from_slice_padded(from) ==
    <<Res("from_slice", "Ok", 0, 0, 0),
      [i \in 1..RSA_SIG_SIZE |-> IF i <= Len(from) THEN from[i] ELSE 0]>>

\* Signature::from_slice(from): assert_eq!(copy_slice(&mut output[..], from), SIZE)
Signature_from_slice(from) ==
    LET c == copy_slice(Fill(RSA_SIG_SIZE, 0), from)
    IN  IF c[2] # RSA_SIG_SIZE THEN <<Res("from_slice", "Panic", 0, 0, 0), <<>>>>
        ELSE <<Res("from_slice", "Ok", 0, 0, 0), c[1]>>

SerdeForms == {"bytes", "seq"}
SigLengths == {0, 1, RSA_SIG_SIZE - 1, RSA_SIG_SIZE, RSA_SIG_SIZE + 1}
SigBytes(len) == [i \in 1..len |-> i % 251]

\* serde: the Signature held, or the default one, is serialized
Serialize ==
    /\ spc \in {"idle", "signed"}
    /\ \E fmt \in SerdeForms :
        LET s == IF spc = "signed" THEN sig ELSE Signature_default
        IN  /\ ser' = Signature_serialize(s, fmt)
            /\ sig' = s
    /\ sop' = "serialize"
    /\ spc' = "serialized"
    /\ UNCHANGED <<build, endian, pc, codecVars, cryptVars, keyVars, skey, msg, mpos, hasher,
                   sdone, sreads, sret, vdata, vret, dret, dsig>>

\* serde: an input from elsewhere
SerdeInput ==
    /\ spc = "idle"
    /\ \E fmt \in SerdeForms : \E len \in SigLengths :
        ser' = [form |-> fmt, items |-> SigBytes(len)]
    /\ sop' = "input"
    /\ spc' = "serialized"
    /\ UNCHANGED <<build, endian, pc, codecVars, cryptVars, keyVars, skey, msg, mpos, hasher,
                   sdone, sreads, sig, sret, vdata, vret, dret, dsig>>

\* Signature::deserialize(deserializer)
Deserialize ==
    /\ spc = "serialized"
    /\ LET r == Signature_deserialize(ser)
       IN  /\ dret' = r[1]
           /\ dsig' = r[2]
    /\ spc' = "deserialized"
    /\ UNCHANGED <<build, endian, pc, codecVars, cryptVars, keyVars, sop, skey, msg, mpos, hasher,
                   sdone, sreads, sig, sret, vdata, vret, ser>>

\* Signature::from_slice(from)
SigFromSlice ==
    /\ spc = "idle"
    /\ \E len \in SigLengths :
        LET r == Signature_from_slice(SigBytes(len))
        IN  /\ ser' = [form |-> "slice", items |-> SigBytes(len)]
            /\ dret' = r[1]
            /\ dsig' = r[2]
    /\ sop' = "from_slice"
    /\ spc' = "from_slice"
    /\ UNCHANGED <<build, endian, pc, codecVars, cryptVars, keyVars, skey, msg, mpos, hasher,
                   sdone, sreads, sig, sret, vdata, vret>>

InitSign ==
    /\ build \in {"debug", "release"}
    /\ endian = "le"
    /\ layout = "key_iv"
    /\ CodecInit
    /\ CryptInit
    /\ SignInit
    /\ KeysInit

NextSign ==
    \/ SignSlice
    \/ SignSyncStart
    \/ VerifySlice
    \/ VerifySyncStart
    \/ StreamRead
    \/ Serialize
    \/ SerdeInput
    \/ Deserialize
    \/ SigFromSlice

SpecSign == InitSign /\ [][NextSign]_vars

(***************************************************************************)
(* AesKey (src/aes.rs) and Password (src/password.rs).                     *)
(*                                                                         *)
(* AesKey is a struct of two byte arrays with the default representation   *)
(* (#[repr(align(1))] sets the alignment only), for which the language     *)
(* fixes no field order: a build may place key first or iv first.          *)
(* into_bytes, from_bytes, as_ref and From<Password> read and write the    *)
(* struct as raw memory, so what they give depends on that order.          *)
(***************************************************************************)
Layouts == {"key_iv", "iv_key"}

\* arrays of n bytes: a run of one byte and then a run of another
ByteArrays(n) ==
    {[i \in 1..n |-> IF i <= j THEN a ELSE b] : j \in {1, n \div 2, n}, a \in {0, 1, 255}, b \in {0, 1, 255}}

\* AesKey::new(key, iv)
AesKey_new(k, i) == [key |-> k, iv |-> i]

\* the memory of an AesKey value: bytes::refer(self), transmute(self)
AesKey_memory(v) == IF layout = "key_iv" THEN v.key \o v.iv ELSE v.iv \o v.key

\* the AesKey value that a memory of KEYSIZE+IVSIZE bytes is: transmute(from)
AesKey_of_memory(b) ==
    IF layout = "key_iv"
    THEN [key |-> SubSeq(b, 1, AES_KEYSIZE), iv |-> SubSeq(b, AES_KEYSIZE + 1, AES_KEYSIZE + AES_IVSIZE)]
    ELSE [key |-> SubSeq(b, AES_IVSIZE + 1, AES_IVSIZE + AES_KEYSIZE), iv |-> SubSeq(b, 1, AES_IVSIZE)]

\* AesKey::into_bytes(self)
AesKey_into_bytes(v) == AesKey_memory(v)

\* AesKey::from_bytes(from)
AesKey_from_bytes(b) == AesKey_of_memory(b)

\* impl AsRef<[u8]> for AesKey
AesKey_as_ref(v) == AesKey_memory(v)

\* the None of got: None
NoValue == 0 - 2

\* AesKey::from_slice(key, iv): <<result, AesKey>>
AesKey_from_slice(k, i) ==
    LET ck == copy_slice(Fill(AES_KEYSIZE, 0), k)
        ci == copy_slice(Fill(AES_IVSIZE, 0), i)
    IN  IF ck[2] = Panic THEN <<Res("from_slice", "Panic", 0, 0, 0), <<>>>>
        ELSE IF ck[2] # AES_KEYSIZE
        THEN <<Res("from_slice", "ErrLength", AES_KEYSIZE, NoValue, 0), <<>>>>
        ELSE IF ci[2] = Panic THEN <<Res("from_slice", "Panic", 0, 0, 0), <<>>>>
        ELSE IF ci[2] # AES_IVSIZE
        THEN <<Res("from_slice", "ErrLength", AES_IVSIZE, NoValue, 0), <<>>>>
        ELSE <<Res("from_slice", "Ok", 0, 0, 0), AesKey_new(ck[1], ci[1])>>

\* Password::create_aes(&self): from_slice(..).unwrap()
create_aes(p) ==
    AesKey_from_slice(SubSeq(p, 1, AES_KEYSIZE), SubSeq(p, AES_KEYSIZE + 1, Len(p)))[2]

\* impl From<Password> for AesKey: transmute(from)
AesKey_from_Password(p) == AesKey_of_memory(p)

\* Salt::none()
Salt_none == Fill(PASSWORD_SALTSIZE, 0)

\* Salt::slice(from): <<result, Salt>>
Salt_slice(from) ==
    LET c == copy_slice(Salt_none, from)
    IN  IF c[2] = Panic THEN <<Res("slice", "Panic", 0, 0, 0), <<>>>>
        ELSE IF c[2] # PASSWORD_SALTSIZE
        THEN <<Res("slice", "ErrLength", PASSWORD_SALTSIZE, NoValue, 0), <<>>>>
        ELSE <<Res("slice", "Ok", 0, 0, 0), c[1]>>

\* the slices a caller passes: empty, one byte short, exact, one byte more
SliceLengths(n) == {0, n - 1, n, n + 1}
SliceOf(len) == [i \in 1..len |-> (i % 7) + 1]

\* AesKey::from_slice(key, iv)
AesFromSlice ==
    /\ apc = "start"
    /\ \E kl \in SliceLengths(AES_KEYSIZE) : \E il \in SliceLengths(AES_IVSIZE) :
        LET r == AesKey_from_slice(SliceOf(kl), SliceOf(il))
        IN  /\ kin' = <<SliceOf(kl), SliceOf(il)>>
            /\ kres' = r[1]
            /\ kval' = r[2]
    /\ apc' = "from_slice"
    /\ UNCHANGED <<build, endian, pc, codecVars, cryptVars, signVars, layout, akey, abytes, aref,
                   aback, passwd, pcreated, pconverted>>

\* Salt::slice(from)
SaltSlice ==
    /\ apc = "start"
    /\ \E len \in SliceLengths(PASSWORD_SALTSIZE) :
        LET r == Salt_slice(SliceOf(len))
        IN  /\ kin' = <<SliceOf(len)>>
            /\ kres' = r[1]
            /\ kval' = r[2]
    /\ apc' = "salt"
    /\ UNCHANGED <<build, endian, pc, codecVars, cryptVars, signVars, layout, akey, abytes, aref,
                   aback, passwd, pcreated, pconverted>>

\* AesKey::new
AesKeyNew ==
    /\ apc = "start"
    /\ \E k \in ByteArrays(AES_KEYSIZE) : \E i \in ByteArrays(AES_IVSIZE) : akey' = AesKey_new(k, i)
    /\ apc' = "aes"
    /\ UNCHANGED <<build, endian, pc, codecVars, cryptVars, signVars, layout, kin, kres, kval, abytes, aref, aback,
                   passwd, pcreated, pconverted>>

\* key.clone().into_bytes()
IntoBytes ==
    /\ apc = "aes"
    /\ abytes' = AesKey_into_bytes(akey)
    /\ apc' = "bytes"
    /\ UNCHANGED <<build, endian, pc, codecVars, cryptVars, signVars, layout, kin, kres, kval, akey, aref, aback,
                   passwd, pcreated, pconverted>>

\* key.as_ref()
AsRef ==
    /\ apc = "bytes"
    /\ aref' = AesKey_as_ref(akey)
    /\ apc' = "ref"
    /\ UNCHANGED <<build, endian, pc, codecVars, cryptVars, signVars, layout, kin, kres, kval, akey, abytes, aback,
                   passwd, pcreated, pconverted>>

\* AesKey::from_bytes(bytes)
AesFromBytes ==
    /\ apc = "ref"
    /\ aback' = AesKey_from_bytes(abytes)
    /\ apc' = "back"
    /\ UNCHANGED <<build, endian, pc, codecVars, cryptVars, signVars, layout, kin, kres, kval, akey, abytes, aref,
                   passwd, pcreated, pconverted>>

\* Password::from_bytes(derived)
PasswordFromBytes ==
    /\ apc = "start"
    /\ passwd' \in ByteArrays(PASSWORD_KEYSIZE)
    /\ apc' = "password"
    /\ UNCHANGED <<build, endian, pc, codecVars, cryptVars, signVars, layout, kin, kres, kval, akey, abytes, aref,
                   aback, pcreated, pconverted>>

\* passwd.create_aes()
CreateAes ==
    /\ apc = "password"
    /\ pcreated' = create_aes(passwd)
    /\ apc' = "created"
    /\ UNCHANGED <<build, endian, pc, codecVars, cryptVars, signVars, layout, kin, kres, kval, akey, abytes, aref,
                   aback, passwd, pconverted>>

\* let aes: AesKey = passwd.into()
FromPassword ==
    /\ apc = "created"
    /\ pconverted' = AesKey_from_Password(passwd)
    /\ apc' = "converted"
    /\ UNCHANGED <<build, endian, pc, codecVars, cryptVars, signVars, layout, kin, kres, kval, akey, abytes, aref,
                   aback, passwd, pcreated>>

InitKeys ==
    /\ build = "release"
    /\ endian = "le"
    /\ layout \in Layouts
    /\ CodecInit
    /\ CryptInit
    /\ SignInit
    /\ KeysInit

NextKeys ==
    \/ AesKeyNew
    \/ IntoBytes
    \/ AsRef
    \/ AesFromBytes
    \/ PasswordFromBytes
    \/ CreateAes
    \/ FromPassword
    \/ AesFromSlice
    \/ SaltSlice

SpecKeys == InitKeys /\ [][NextKeys]_vars

Next ==
    \/ New
    \/ ToBytes
    \/ WriteToSync
    \/ Truncate
    \/ Extend
    \/ Receive
    \/ FromBytes
    \/ ReadFromSync
    \/ GetPublicParts

Spec == Init /\ [][Next]_vars

InitCrypt ==
    /\ build \in {"debug", "release"}
    /\ endian = "le"
    /\ layout = "key_iv"
    /\ CodecInit
    /\ CryptInit
    /\ SignInit
    /\ KeysInit

NextCrypt ==
    \/ EncryptStart
    \/ DecryptStart
    \/ ReadStep
    \/ CryptStep
    \/ WriteStep

SpecCrypt == InitCrypt /\ [][NextCrypt]_vars

\* the stream transforms together with the slice transforms
NextSlice ==
    \/ EncryptStart
    \/ DecryptStart
    \/ ReadStep
    \/ CryptStep
    \/ WriteStep
    \/ EncryptSlice
    \/ DecryptSlice

SpecSlice == InitCrypt /\ [][NextSlice]_vars

\* the loop is sequential code: a call that is due is made
SpecCryptLive ==
    /\ InitCrypt
    /\ [][NextCrypt]_vars
    /\ WF_vars(ReadStep)
    /\ WF_vars(CryptStep)
    /\ WF_vars(WriteStep)

(***************************************************************************)
(* Properties of the codec (checked under Spec).                           *)
(***************************************************************************)
Decoders == {"from_bytes", "read_from_sync"}
FieldValues(k, g) == [i \in 1..Len(FieldsOf(k)) |-> g[FieldsOf(k)[i]]]
\* the sum of the length fields as a number, without the width of usize
TrueSum(k, g) == MathSum(FieldValues(k, g))

\* C1: from_bytes over the to_bytes of a container built by new succeeds and
\* returns a container equal to it (data, offsets, starts), and every
\* accessor of the decoded container returns the bytes of the component that
\* was given to new; for private and for public containers.
C1_RoundTrip ==
    (ret.op = "from_bytes" /\ wiresrc = "exact") =>
        /\ ret.tag = "Ok"
        /\ key = orig
        /\ \A f \in FieldSet(kind) : component(key, f) = comps[f]

\* C1 witness: a private container with an empty n and non-empty e and d has
\* been encoded and decoded.
C1_Witness ==
    /\ ret.op = "from_bytes"
    /\ wiresrc = "exact"
    /\ kind = "private"
    /\ comps.n = <<>>
    /\ comps.e # <<>>
    /\ comps.d # <<>>

\* C2: every container that new, from_bytes or read_from_sync returned has
\* data.len() == offset.body_len(); an input whose body is longer or shorter
\* than its header declares yields no container.
C2_DataLenIsBodyLen ==
    key.kind # "none" => Len(key.data) = body_len(key.kind, key.offset)

\* C3: in every offset group with its start table, start(n) = 0, each next
\* start is the previous start plus the previous length, and the last start
\* plus the last length is body_len(), the sum of all length fields.
C3_OffsetsCorrect ==
    key.kind # "none" =>
        LET F == FieldsOf(key.kind)
            g == key.offset
            s == key.offset_starts
        IN  /\ s[F[1]] = 0
            /\ \A i \in 1..(Len(F) - 1) : s[F[i + 1]] = s[F[i]] + g[F[i]]
            /\ s[F[Len(F)]] + g[F[Len(F)]] = body_len(key.kind, g)
            /\ body_len(key.kind, g) = TrueSum(key.kind, g)

\* the input is shorter than size_of(header) + body_len()
ShortInput(k, w) ==
    \/ Len(w) < OffSize(k)
    \/ LET b == body_len(k, derefer(k, SubSeq(w, 1, OffSize(k))))
       IN  b # Panic /\ Len(w) - OffSize(k) < b

\* C4: decoding an input shorter than size_of(header) + body_len() returns no
\* container: from_bytes returns Err(Binary(Length{expected, got})) with the
\* header size and the input length when the header is incomplete, with
\* body_len() and the bytes after the header when the body is incomplete;
\* read_from_sync returns an unexpected-end-of-input error.
C4_ShortInputRejected ==
    (pc \in {"have_key", "failed"} /\ ret.op \in Decoders /\ ShortInput(kind, wire)) =>
        /\ key = NoKey
        /\ ret.op = "from_bytes" =>
              ret = IF Len(wire) < OffSize(kind)
                    THEN Res("from_bytes", "ErrLength", OffSize(kind), Len(wire), 0)
                    ELSE Res("from_bytes", "ErrLength",
                             body_len(kind, derefer(kind, SubSeq(wire, 1, OffSize(kind)))),
                             Len(wire) - OffSize(kind), 0)
        /\ ret.op = "read_from_sync" => ret.tag = "UnexpectedEof"

\* C5: for a header whose length fields sum to more than the largest usize,
\* from_bytes and read_from_sync return no container whose buffer is smaller
\* than the true sum of the declared lengths.
C5_NoSilentWrap ==
    (origin \in Decoders /\ TrueSum(key.kind, key.offset) > UsizeMax) =>
        Len(key.data) >= TrueSum(key.kind, key.offset)

\* C6: new stores data as the concatenation of the components in declaration
\* order and each component's length in the offset field of its name; each
\* accessor f returns data[start(f) .. start(f)+length(f)], and the accessor
\* ranges are adjacent, do not overlap and cover data exactly.
C6_NewLayout ==
    origin = "new" =>
        LET F == FieldsOf(key.kind)
            g == key.offset
            s == key.offset_starts
        IN  /\ key.data = Concat([i \in 1..Len(F) |-> comps[F[i]]])
            /\ \A f \in FieldSet(key.kind) :
                  /\ g[f] = Len(comps[f])
                  /\ component(key, f) = SubSeq(key.data, s[f] + 1, s[f] + g[f])
                  /\ component(key, f) = comps[f]
            /\ s[F[1]] = 0
            /\ \A i \in 1..(Len(F) - 1) : s[F[i + 1]] = s[F[i]] + g[F[i]]
            /\ s[F[Len(F)]] + g[F[Len(F)]] = Len(key.data)

\* C6 witness: new has built a private container from two different
\* non-empty components that are not neighbours in the order.
C6_Witness ==
    /\ origin = "new"
    /\ kind = "private"
    /\ comps.e # <<>>
    /\ comps.iqmp # <<>>
    /\ comps.e # comps.iqmp

\* the component lengths of the 2048-bit example
ScenarioGroup ==
    [n |-> 256, e |-> 3, d |-> 256, p |-> 128, q |-> 128, dmp1 |-> 128, dmq1 |-> 128,
     iqmp |-> 128]

\* C7: write_to_sync appends the raw header bytes and then data to the sink
\* and nothing else, and returns size_of(OffsetGroup) + body_len(), which is
\* the number of bytes it wrote; the body of the example key is 1155 bytes.
C7_WriteToSync ==
    /\ TrueSum("private", ScenarioGroup) = 1155
    /\ ret.op = "write_to_sync" =>
          /\ sink = sink0 \o refer(key.kind, key.offset) \o key.data
          /\ ret.val = Len(sink) - Len(sink0)
          /\ ret.val = OffSize(key.kind) + body_len(key.kind, key.offset)

\* C17: a successful read_from_sync has consumed exactly size_of(OffsetGroup)
\* bytes for the header and then exactly body_len() bytes for the body, which
\* are the container's offset and data; the bytes after the declared body
\* are still in the stream.
C17_ConsumesExactly ==
    (ret.op = "read_from_sync" /\ ret.tag = "Ok") =>
        /\ key.offset = derefer(kind, SubSeq(wire, 1, OffSize(kind)))
        /\ pos = OffSize(kind) + body_len(kind, key.offset)
        /\ pos <= Len(wire)
        /\ key.data = SubSeq(wire, OffSize(kind) + 1, pos)

\* C17 witness: read_from_sync decoded a container with a body from a stream
\* that holds a byte after it, and left that byte unread.
C17_Witness ==
    /\ ret.op = "read_from_sync"
    /\ ret.tag = "Ok"
    /\ wiresrc = "extended"
    /\ key.data # <<>>
    /\ pos = Len(wire) - 1

\* C25: for every private container, built by new or returned by a decoder,
\* whose n() and e() return, get_public_parts() returns a public container
\* whose n() and e() are the same bytes.
C25_PublicParts ==
    (ret.op = "get_public_parts" /\ component(key, "n") # NoBytes /\ component(key, "e") # NoBytes) =>
        /\ ret.tag = "Ok"
        /\ pubparts.kind = "public"
        /\ component(pubparts, "n") = component(key, "n")
        /\ component(pubparts, "e") = component(key, "e")

\* C26: in every container that from_bytes or read_from_sync returned, every
\* accessor returns: start(f) + length(f) <= data.len() for every field f.
C26_AccessorsReturn ==
    origin \in Decoders =>
        \A f \in FieldSet(key.kind) :
            /\ component(key, f) # NoBytes
            /\ key.offset_starts[f] + key.offset[f] <= Len(key.data)

\* C27: from_bytes(b) and read_from_sync over a stream holding exactly b both
\* fail or both return the same container, for private and public containers.
C27_DecodersAgree ==
    ret.op = "from_bytes" =>
        LET r == read_from_sync(kind, input)
        IN  /\ ret.tag = "Ok" <=> r[1].tag = "Ok"
            /\ ret.tag = "Ok" => key = r[2]

\* C28: for every input b that from_bytes accepts, from_bytes(b).to_bytes()
\* is b, for private and public containers.
C28_ReencodeIsInput ==
    (ret.op = "to_bytes" /\ origin = "from_bytes") => wire = input

\* C28 witness: a container that from_bytes decoded from an input with a
\* byte after the declared body has been encoded again.
C28_Witness ==
    /\ ret.op = "to_bytes"
    /\ origin = "from_bytes"
    /\ body_len(kind, key.offset) = 1
    /\ Len(input) = OffSize(kind) + 2

(***************************************************************************)
(* Properties of the block transforms (checked under SpecCrypt).           *)
(***************************************************************************)
CeilDiv(a, b) == (a + b - 1) \div b

EncryptDone == op = "encrypt" /\ cpc = "done" /\ cret.tag = "Ok"

C9_DecryptInverts ==
    (op = "decrypt" /\ cpc = "done" /\ allfull /\ max_size > 0 /\ ~injected) =>
        /\ cret.tag = "Ok"
        /\ out = plain

\* C10: in decrypt_sync every call of the private-decrypt capability receives
\* exactly key_size bytes of ciphertext.
C10_FullBlockPerCall ==
    (op = "decrypt" /\ lastcall # 0) => lastcall = key_size

\* C11: the count encrypt_sync and decrypt_sync return on success is the
\* number of bytes read from the source, the sum of the sizes of the non-zero
\* reads, and not the number of bytes written; the running count is the
\* number of bytes read after every iteration.
C11_CountIsBytesRead ==
    /\ (op # "none" /\ cpc \in {"read", "write"}) => done = spos
    /\ (op # "none" /\ cpc = "done" /\ cret.tag = "Ok") =>
          /\ cret.val = spos
          /\ max_size > 0 => cret.val = Len(source)

\* C11 witness: an encryption read three bytes in two reads, returned 3 and
\* wrote two blocks.
C11_Witness ==
    /\ EncryptDone
    /\ nreads = 2
    /\ cret.val = 3
    /\ Len(out) = 2 * key_size
    /\ Len(out) # cret.val

\* C14 as stated: after a failed read or write the transform has returned
\* Error::IO and the sink holds exactly the whole chunks written before.
C14_Original ==
    fault \in {"read", "write"} =>
        /\ cret = Res(op, "ErrIO", 0, 0, IoError)
        /\ out = committed

\* what follows a failed read or write: nothing
AfterIoError ==
    fault \in {"read", "write"} => UNCHANGED <<spos, nreads, ncalls, out, cret, cpc>>

\* C14 amended: when a read or a write fails the transform returns Error::IO
\* with that error at once, with no further read, capability call or write
\* and no retry, and without rolling back: the sink holds the chunks written
\* before the failure, followed, when it was a write that failed, by the part
\* of the failing chunk that write_all had passed on before the error.
C14_AbortOnIoError ==
    /\ [](fault \in {"read", "write"} =>
            /\ cpc = "done"
            /\ cret = Res(op, "ErrIO", 0, 0, IoError)
            /\ ncalls = nreads
            /\ fault = "read" => out = committed
            /\ fault = "write" =>
                  \E w \in 0..(Len(block) - 1) : out = committed \o SubSeq(block, 1, w))
    /\ [][AfterIoError]_vars

\* C14 witness: the write of the second block failed after one byte of it.
C14_Witness ==
    /\ op = "encrypt"
    /\ fault = "write"
    /\ Len(committed) = key_size
    /\ Len(out) = key_size + 1

\* C15: a failed block encryption gives Error::Encrypt, a failed block
\* decryption Error::Decrypt, a key that cannot be obtained Error::Key, and
\* nothing else; the loop stops there: the failed block is not written and
\* no further call is made.
C15_DomainErrors ==
    cpc = "done" =>
        /\ fault = "capability" =>
              /\ cret = Res(op, IF op = "encrypt" THEN "ErrEncrypt" ELSE "ErrDecrypt", 0, 0, 0)
              /\ ncalls = nreads
              /\ out = committed
        /\ fault \in {"key", "nokey"} =>
              /\ cret = Res(op, "ErrKey", 0, 0, 0)
              /\ nreads = 0 /\ ncalls = 0 /\ out = <<>>
        /\ cret.tag \in {"ErrEncrypt", "ErrDecrypt"} => fault = "capability"
        /\ cret.tag = "ErrKey" => fault \in {"key", "nokey"}

\* C15 witness: the decryption of a block failed, and in another run the
\* second block of an encryption failed after the first was written.
C15_Witness ==
    /\ cpc = "done"
    /\ fault = "capability"
    /\ \/ op = "decrypt" /\ cret.tag = "ErrDecrypt"
       \/ op = "encrypt" /\ cret.tag = "ErrEncrypt" /\ ncalls = 2 /\ Len(out) = key_size

\* the error the capability raised, if it raised one
Raised == IF fault \in {"capability", "key"} THEN ErrorStack ELSE NoError

\* C16: an error returned because the capability raised an error has that
\* error as its source().
C16_SourceChained ==
    (cpc = "done" /\ Raised # NoError) => Error_source(cret) = Raised

\* C18: the encrypt_sync loop ends with Ok only on a read of zero bytes, which
\* a source gives a non-empty buffer when all its bytes are read; a short
\* non-zero read goes on to the capability call; and unless a read, a write
\* or the capability fails, encrypt_sync returns Ok in the end.
ReadEndsLoop ==
    /\ (op = "encrypt" /\ cpc = "read" /\ cpc' = "done" /\ cret'.tag = "Ok") => spos' = spos
    /\ (op = "encrypt" /\ cpc = "read" /\ spos' # spos) => cpc' = "crypt"

C18_EndsOnZeroRead ==
    /\ [][ReadEndsLoop]_vars
    /\ [](EncryptDone /\ max_size > 0 => spos = Len(source))
    /\ [](op = "encrypt" /\ cpc \in {"read", "crypt", "write"}
            => <>(op = "encrypt" /\ cpc = "done" /\ (fault = "none" => cret.tag = "Ok")))

\* C18 witness: an encryption returned Ok after three one-byte reads where
\* the buffer held two bytes.
C18_Witness ==
    /\ EncryptDone
    /\ max_size = 2
    /\ nreads = 3
    /\ spos = 3

\* C23: in encrypt_sync, once the key is obtained, key_size - 11 is computed
\* without underflow (the call does not panic), every chunk handed to the
\* capability has 1 to key_size - 11 bytes, and the capability rejects no
\* chunk for its length.
C23_ChunkFits ==
    (op = "encrypt" /\ fault \notin {"key", "nokey"}) =>
        /\ cret.tag # "Panic"
        /\ key_size >= PADDING_NEEDS
        /\ lastcall # 0 => (1 <= lastcall /\ lastcall <= key_size - PADDING_NEEDS)
        /\ fault = "capability" => injected

\* the plaintext of a sequence of blocks of ks bytes
RECURSIVE Unblocks(_, _)
Unblocks(bytes, ks) ==
    IF Len(bytes) = 0 \/ ks = 0 \/ Len(bytes) < ks THEN <<>>
    ELSE LET m == private_decrypt(SubSeq(bytes, 1, ks), ks)
         IN  (IF m = NoBytes THEN <<>> ELSE m) \o Unblocks(SubSeq(bytes, ks + 1, Len(bytes)), ks)

\* a read of encrypt_sync that takes bytes
NextRead == op = "encrypt" /\ op' = "encrypt" /\ nreads' = nreads + 1

\* C24: encrypt_sync neither buffers nor reorders: when the (i+1)-th read is
\* made the blocks of the first i non-empty reads are in the sink, whole, and
\* the sink is always the concatenation, in read order, of one block of
\* key_size bytes for each non-empty read made so far.
C24_InOrder ==
    /\ []((op = "encrypt" /\ (cpc = "read" \/ cret.tag = "Ok")) =>
            /\ out = committed
            /\ Len(out) = key_size * nreads
            /\ Unblocks(out, key_size) = SubSeq(source, 1, spos))
    /\ [][NextRead => (out = committed /\ Len(out) = key_size * nreads)]_vars

\* C24 witness: an encryption ended after two reads of different bytes, with
\* the two blocks in the sink.
C24_Witness ==
    /\ EncryptDone
    /\ nreads = 2
    /\ source = <<7, 9>>
    /\ Len(out) = 2 * key_size

\* C29: when the key container gives no RSA key, by an error or by None,
\* encrypt_sync, decrypt_sync, encrypt_slice_sync and decrypt_slice_sync
\* return Error::Key, and no byte has been read from the source, handed to
\* the capability or written to the sink.
C29_KeyErrorFirst ==
    fault \in {"key", "nokey"} =>
        /\ cpc = "done"
        /\ op \in {"encrypt", "decrypt", "encrypt_slice", "decrypt_slice"}
        /\ cret.tag = "ErrKey"
        /\ spos = 0
        /\ ncalls = 0
        /\ Len(out) = 0

\* C29 witness: decrypt_slice_sync found no key in the container.
C29_Witness ==
    /\ op = "decrypt_slice"
    /\ fault = "nokey"
    /\ Len(cipher) = key_size
    /\ cret.tag = "ErrKey"

(***************************************************************************)
(* Properties of signing (checked under SpecSign).                         *)
(***************************************************************************)
\* C12: for every valid private key and every data, sign_slice returns a
\* signature, verify_slice of it against the same data returns Ok(true), and
\* against the data with one byte changed Ok(false), never an error.
C12_SignVerify ==
    /\ (sret.op = "sign_slice" /\ sret.tag # "ErrKey") => sret.tag = "Ok"
    /\ (sret.op = "sign_slice" /\ vret.op = "verify_slice" /\ vret.tag # "ErrKey") =>
          vret = Res("verify_slice", "Ok", 0, 0, vdata = msg)

\* C13: sign_sync returns the signature (or the failure) that sign_slice
\* returns over all the bytes of the stream, however the reads split them and
\* whatever the key size, and the number of bytes read; verify_sync returns
\* what verify_slice returns over all the bytes, and the number of bytes read.
C13_StreamEqualsSlice ==
    /\ (sret.op = "sign_sync" /\ sret.tag \notin {"ErrIO", "ErrKey"}) =>
          LET r == sign_slice(msg, skey, "ok")
          IN  /\ sret.tag = r[1].tag
              /\ sret.tag # "Ok" => sret = [r[1] EXCEPT !.op = "sign_sync"]
              /\ sret.tag = "Ok" => sig = r[2] /\ sret.val = Len(msg)
    /\ (vret.op = "verify_sync" /\ vret.tag \notin {"ErrIO", "ErrKey"}) =>
          /\ vret.tag = "Ok"
          /\ vret.val = <<verify_slice(sig, vdata, skey, "ok").val, Len(vdata)>>

\* C13 witness: sign_sync signed three bytes read in two reads, and
\* verify_sync accepted the signature over the same bytes read in three.
C13_Witness ==
    /\ sret.op = "sign_sync"
    /\ sret.tag = "Ok"
    /\ sret.val = 3
    /\ vret.op = "verify_sync"
    /\ vret.tag = "Ok"
    /\ vret.val = <<TRUE, 3>>
    /\ sreads = 3

\* C21: deserializing the serialization of a Signature, the all-zero default
\* included, gives an equal Signature, and deserializing an input that does
\* not hold exactly RSA_SIG_SIZE bytes gives an error and no Signature.
C21_SerdeRoundTrip ==
    spc = "deserialized" =>
        /\ sop = "serialize" => (dret.tag = "Ok" /\ dsig = sig)
        /\ Len(ser.items) # RSA_SIG_SIZE => (dret.tag = "ErrCustom" /\ dsig = <<>>)

\* C22: Signature::from_slice panics for a slice of fewer than RSA_SIG_SIZE
\* bytes, and for a longer one returns the Signature of its first
\* RSA_SIG_SIZE bytes.
C22_FromSlice ==
    spc = "from_slice" =>
        IF Len(ser.items) < RSA_SIG_SIZE
        THEN dret.tag = "Panic" /\ dsig = <<>>
        ELSE /\ dret.tag = "Ok"
             /\ Len(dsig) = RSA_SIG_SIZE
             /\ \A i \in 1..RSA_SIG_SIZE : dsig[i] = ser.items[i]

\* C22 witness: from_slice returned the first RSA_SIG_SIZE bytes of a slice
\* one byte longer.
C22_Witness ==
    /\ spc = "from_slice"
    /\ Len(ser.items) = RSA_SIG_SIZE + 1
    /\ dret.tag = "Ok"
    /\ Len(dsig) = RSA_SIG_SIZE
    /\ dsig[RSA_SIG_SIZE] = ser.items[RSA_SIG_SIZE]

(***************************************************************************)
(* Properties of AesKey and Password (checked under SpecKeys).             *)
(***************************************************************************)
\* C19: for every AesKey k, from_bytes(k.into_bytes()) = k, and
\* k.into_bytes() equals k.as_ref() and equals the 16 key bytes followed by
\* the 16 IV bytes.
C19_AesKeyBytes ==
    /\ apc \in {"bytes", "ref", "back"} => abytes = akey.key \o akey.iv
    /\ apc \in {"ref", "back"} => abytes = aref
    /\ apc = "back" => aback = akey

\* C20: for every Password p, AesKey::from(p) is the key p.create_aes()
\* gives, whose key is the first 16 bytes of the derived hash and whose IV is
\* the last 16 bytes.
C20_PasswordToAesKey ==
    /\ apc \in {"created", "converted"} =>
          /\ pcreated.key = SubSeq(passwd, 1, AES_KEYSIZE)
          /\ pcreated.iv = SubSeq(passwd, PASSWORD_KEYSIZE - AES_IVSIZE + 1, PASSWORD_KEYSIZE)
    /\ apc = "converted" => pconverted = pcreated

\* C30: AesKey::from_slice gives Err(Length{expected: Some(16), got: None})
\* when the key slice or the iv slice has fewer than 16 bytes, and Salt::slice
\* gives Err(Length{expected: Some(32), got: None}) when the slice has fewer
\* than 32 bytes, the empty slice included; neither panics; longer slices
\* give Ok with the leading bytes.
C30_ShortSliceIsError ==
    /\ apc = "from_slice" =>
          IF Len(kin[1]) < AES_KEYSIZE \/ Len(kin[2]) < AES_IVSIZE
          THEN kres.tag = "ErrLength" /\ kres.expected = 16 /\ kres.got = NoValue
          ELSE /\ kres.tag = "Ok"
               /\ kval = [key |-> SubSeq(kin[1], 1, AES_KEYSIZE), iv |-> SubSeq(kin[2], 1, AES_IVSIZE)]
    /\ apc = "salt" =>
          IF Len(kin[1]) < PASSWORD_SALTSIZE
          THEN kres.tag = "ErrLength" /\ kres.expected = 32 /\ kres.got = NoValue
          ELSE kres.tag = "Ok" /\ kval = SubSeq(kin[1], 1, PASSWORD_SALTSIZE)

====
